---- MODULE Spec2Model ----
(***************************************************************************)
(* A model of app.py: one global ChessGame (board, engine handle, history, *)
(* difficulty) behind the Flask handlers /api/start, /api/move, /api/reset,*)
(* /api/difficulty, /api/board and /api/history.                           *)
(*                                                                         *)
(* The rules library (python-chess) and the engine are external to the     *)
(* repository.  The library is instantiated with chess restricted to a     *)
(* universe of moves, fixed for a run (variant).  Universe has five moves  *)
(* (f2f3, e2e4, g2g4, e7e5, d8h4): enough for the fool's mate, for a       *)
(* position without legal moves that is not check, and for moves that are  *)
(* legal for one side only.  Shuffle has the four moves that take the      *)
(* knights of g1 and g8 out and back: enough for a position that is game   *)
(* over by repetition while moves are legal.  The engine answers a search  *)
(* with any legal move of the position it was given, or fails.             *)
(*                                                                         *)
(* Each handler is a sequence of steps, one per statement that reads or    *)
(* writes the shared game object; pc[t] is the position of request thread  *)
(* t.  Spec serves the requests one at a time; ConcSpec lets two request   *)
(* threads interleave statement by statement (the Flask development server *)
(* of line 259 is threaded and app.py takes no lock), for MaxRequests      *)
(* requests that read or write the board and the history; DrawSpec serves  *)
(* MaxDrawRequests requests one at a time in games of knight moves.        *)
(* Timestamps of history entries are left out.  fs records the candidate   *)
(* paths that existed when the game object was constructed, and before[t]  *)
(* board and history as a /api/move or /api/reset request of thread t      *)
(* arrived; no handler reads them.                                         *)
(***************************************************************************)
EXTENDS Integers, Sequences, FiniteSets, TLC

VARIABLES
    fs,             \* the candidate paths that exist on the server's filesystem
    variant,        \* the rules of the universe of moves the library is restricted to
    board,          \* game.board: [stack, turn, placement, fullmove]
    engine_path,    \* game.engine_path
    engine,         \* game.engine: None or the index in procs of the process held
    game_history,   \* game.game_history
    difficulty,     \* game.difficulty
    procs,          \* every engine subprocess launched so far: "alive" or "dead"
    pc,             \* per request thread: the statement it is at
    req,            \* per request thread: the request being served
    local,          \* per request thread: the handler's local variables
    resp,           \* per request thread: the response, once produced
    quota,          \* the requests the server still accepts; Unlimited: no limit
    before          \* per request thread: board and history as a move or reset arrived

vars ==
    <<fs, variant, board, engine_path, engine, game_history, difficulty, procs, pc, req, local,
      resp, quota, before>>

game == <<board, engine, game_history, difficulty, procs>>

-----------------------------------------------------------------------------
(* Bounds *)

\* The number of engine subprocesses that can be launched; beyond it popen fails.
MaxProcs == 2

\* The number of requests of a concurrent run.
MaxRequests == 3

\* The number of requests of a run of DrawSpec: eight moves answered by the
\* engine repeat the initial position four times, the ninth meets it.
MaxDrawRequests == 9

-----------------------------------------------------------------------------
(* Values *)

None == <<>>

Unlimited == 0 - 1

Some(x) == <<x>>

WHITE == TRUE

BLACK == FALSE

Threads == {"t1", "t2"}

SeqThreads == {"t1"}

\* Move texts are strings of characters.
Files == {"a", "b", "c", "d", "e", "f", "g", "h"}

Ranks == {"1", "2", "3", "4", "5", "6", "7", "8"}

PieceSymbols == {"n", "b", "r", "q", "k"}

Mv(f1, r1, f2, r2) == [from |-> <<f1, r1>>, to |-> <<f2, r2>>, promotion |-> None]

f2f3 == Mv("f", "2", "f", "3")

e2e4 == Mv("e", "2", "e", "4")

g2g4 == Mv("g", "2", "g", "4")

e7e5 == Mv("e", "7", "e", "5")

d8h4 == Mv("d", "8", "h", "4")

g1f3 == Mv("g", "1", "f", "3")

f3g1 == Mv("f", "3", "g", "1")

g8f6 == Mv("g", "8", "f", "6")

f6g8 == Mv("f", "6", "g", "8")

WhiteMoves == {f2f3, e2e4, g2g4}

BlackMoves == {e7e5, d8h4}

\* The universe of the games of Spec and ConcSpec.
Universe == WhiteMoves \cup BlackMoves

\* The universe of the games of DrawSpec: the knights on g1 and g8 go out and
\* back.
Shuffle == {g1f3, f3g1, g8f6, f6g8}

-----------------------------------------------------------------------------
(* The rules library, as app.py uses it *)

\* move.uci(): the coordinate text of a move.
uci(m) == m.from \o m.to \o m.promotion

\* chess.Move.from_uci can parse the text (it raises otherwise).
Parsable(text) ==
    /\ Len(text) \in {4, 5}
    /\ text[1] \in Files /\ text[2] \in Ranks
    /\ text[3] \in Files /\ text[4] \in Ranks
    /\ Len(text) = 5 => text[5] \in PieceSymbols
    /\ <<text[1], text[2]>> # <<text[3], text[4]>>

from_uci(text) ==
    [from |-> <<text[1], text[2]>>, to |-> <<text[3], text[4]>>,
     promotion |-> IF Len(text) = 5 THEN <<text[5]>> ELSE None]

\* The squares the moves of the universes leave, reach or pass over.
Squares ==
    {<<"g", "1">>, <<"e", "2">>, <<"f", "2">>, <<"g", "2">>, <<"e", "3">>, <<"f", "3">>,
     <<"g", "3">>, <<"e", "4">>, <<"g", "4">>, <<"h", "4">>, <<"e", "5">>, <<"g", "5">>,
     <<"e", "6">>, <<"f", "6">>, <<"e", "7">>, <<"d", "8">>, <<"g", "8">>}

\* board.piece_at(square) of an empty square.
Empty == "."

\* The pieces the universes move, on their squares of the initial position.
InitialPlacement ==
    [sq \in Squares |->
        CASE sq \in {<<"e", "2">>, <<"f", "2">>, <<"g", "2">>} -> "P"
          [] sq = <<"g", "1">> -> "N"
          [] sq = <<"e", "7">> -> "p"
          [] sq = <<"d", "8">> -> "q"
          [] sq = <<"g", "8">> -> "n"
          [] OTHER -> Empty]

WhitePieces == {"P", "N"}

\* chess.Board(): the standard initial position, white to move, move number 1.
NewBoard ==
    [stack |-> <<>>, turn |-> WHITE, placement |-> InitialPlacement, fullmove |-> 1]

\* The piece that makes move m of the universes.
Mover(m) ==
    CASE m \in WhiteMoves -> "P"
      [] m \in {g1f3, f3g1} -> "N"
      [] m = e7e5 -> "p"
      [] m = d8h4 -> "q"
      [] m \in {g8f6, f6g8} -> "n"

\* The squares move m passes over.
Passes(m) ==
    CASE m = e2e4 -> {<<"e", "3">>}
      [] m = g2g4 -> {<<"g", "3">>}
      [] m = e7e5 -> {<<"e", "6">>}
      [] m = d8h4 -> {<<"e", "7">>, <<"f", "6">>, <<"g", "5">>}
      [] OTHER -> {}

\* The rules of movement of a universe: each move with the piece that makes it
\* and the squares that must be empty for it.
Rules(moves) ==
    {[move |-> m, piece |-> Mover(m), free |-> Passes(m) \cup {m.to}] : m \in moves}

\* The placement once the piece on the origin of m, if any, stands on its
\* destination.
Moves(pl, m) ==
    IF pl[m.from] = Empty THEN pl
    ELSE [pl EXCEPT ![m.from] = Empty, ![m.to] = pl[m.from]]

\* White's king on e1 is attacked: the queen is on h4 and f2 and g3 are empty.
WhiteKingAttacked(pl) ==
    /\ pl[<<"h", "4">>] = "q"
    /\ pl[<<"g", "3">>] = Empty
    /\ pl[<<"f", "2">>] = Empty

\* board.pseudo_legal_moves, within the universe of the run: the mover's own
\* piece stands on the origin and the squares passed and the destination are
\* empty.
pseudo_legal_moves(b) ==
    {r.move : r \in {x \in variant :
        /\ (x.piece \in WhitePieces) = (b.turn = WHITE)
        /\ b.placement[x.move.from] = x.piece
        /\ \A sq \in x.free : b.placement[sq] = Empty}}

\* board.legal_moves: the pseudo-legal moves that do not leave the mover's
\* king attacked (no move of the universes attacks black's king).
legal_moves(b) ==
    {m \in pseudo_legal_moves(b) :
        b.turn = WHITE => ~WhiteKingAttacked(Moves(b.placement, m))}

is_check(b) == b.turn = WHITE /\ WhiteKingAttacked(b.placement)

is_checkmate(b) == is_check(b) /\ legal_moves(b) = {}

is_stalemate(b) == ~is_check(b) /\ legal_moves(b) = {}

\* board.push(move) raises: push does not check legality, but it asserts that
\* a piece stands on the origin square.
PushRaises(b, m) == b.placement[m.from] = Empty

\* board.push(move): the move goes on the move stack and the move number is
\* advanced after a move of black; then the piece is moved and the turn flips,
\* unless no piece stands on the origin.
push(b, m) ==
    [stack |-> Append(b.stack, m),
     turn |-> IF PushRaises(b, m) THEN b.turn ELSE ~b.turn,
     placement |-> Moves(b.placement, m),
     fullmove |-> IF b.turn = BLACK THEN b.fullmove + 1 ELSE b.fullmove]

\* The number of points of the game of b, from the n-th move on, at which the
\* present position of b stood on the board (the same placement with the
\* same side to move), cur being the board after n moves.
RECURSIVE Occurrences(_, _, _)
Occurrences(b, n, cur) ==
    LET here == IF cur.placement = b.placement /\ cur.turn = b.turn THEN 1 ELSE 0
    IN  IF n = Len(b.stack) THEN here
        ELSE here + Occurrences(b, n + 1, push(cur, b.stack[n + 1]))

\* board.is_fivefold_repetition: the position stands for the fifth time, which
\* takes four moves at least.
is_fivefold_repetition(b) == Len(b.stack) >= 4 /\ Occurrences(b, 0, NewBoard) >= 5

\* board.is_game_over: checkmate, stalemate or fivefold repetition.  The other
\* two conditions of the library, insufficient material and 75 moves without
\* capture or pawn move, do not arise: the universes have no capture and the
\* games are shorter than 150 plies.
is_game_over(b) == is_checkmate(b) \/ is_stalemate(b) \/ is_fivefold_repetition(b)

\* board.fen(): the placement, the side to move and the move number.
fen(b) ==
    [placement |-> b.placement,
     turn |-> IF b.turn = WHITE THEN "w" ELSE "b",
     fullmove |-> b.fullmove]

-----------------------------------------------------------------------------
(* ChessGame *)

Candidates ==
    <<"./stockfish.exe", "./stockfish/stockfish.exe", "stockfish.exe", "stockfish",
      "./stockfish", "/usr/bin/stockfish", "/usr/local/bin/stockfish",
      "C:\\Program Files\\stockfish\\stockfish.exe", "C:\\stockfish\\stockfish.exe">>

\* The filesystems the server is started on: the candidate paths that exist.
Filesystems == {{}, {"./stockfish.exe"}, {"/usr/bin/stockfish"}}

\* find_stockfish: the first candidate that exists or is named 'stockfish'.
find_stockfish(exists) ==
    LET hits == {i \in 1..Len(Candidates) :
                    Candidates[i] \in exists \/ Candidates[i] = "stockfish"}
    IN  IF hits = {} THEN None
        ELSE Some(Candidates[CHOOSE i \in hits : \A j \in hits : i <= j])

\* set_difficulty without the lower clamp: min(20, level).
set_difficultyNoFloor(level) == IF level < 20 THEN level ELSE 20

\* set_difficulty
set_difficulty(level) ==
    LET lo == IF level < 20 THEN level ELSE 20
    IN  IF lo > 1 THEN lo ELSE 1

\* One entry of game_history.
Entry(text, player) == [move |-> text, player |-> player]

\* get_board_state
get_board_state(b, h) ==
    [fen |-> fen(b),
     turn |-> IF b.turn = WHITE THEN "white" ELSE "black",
     is_check |-> is_check(b),
     is_checkmate |-> is_checkmate(b),
     is_stalemate |-> is_stalemate(b),
     is_game_over |-> is_game_over(b),
     legal_moves |-> {uci(m) : m \in legal_moves(b)},
     move_count |-> Len(h)]

\* The processes launched and not yet dead.
Alive == {i \in 1..Len(procs) : procs[i] = "alive"}

EngineAlive == engine # None /\ procs[engine[1]] = "alive"

\* start_engine succeeds: popen_uci launches a new process and the handle is
\* replaced by it; the process the handle held before is not quit.
StartEngineOk ==
    /\ engine_path # None
    /\ Len(procs) < MaxProcs
    /\ procs' = Append(procs, "alive")
    /\ engine' = Some(Len(procs) + 1)

\* start_engine fails: no path, or popen_uci raises; nothing changes.
StartEngineFails ==
    /\ UNCHANGED <<engine, procs>>

-----------------------------------------------------------------------------
(* Requests and responses *)

NoLocal == [move |-> None]

NoBefore == [board |-> NewBoard, game_history |-> <<>>]

NoReq == [op |-> "none", json |-> FALSE, arg |-> None]

NoResp == [status |-> 0, success |-> FALSE, error |-> "", board_state |-> None,
           ai_move |-> None, game_over |-> FALSE, difficulty |-> 0, history |-> None]

Request(op, json, arg) == [op |-> op, json |-> json, arg |-> arg]

Failure(status, error) == [NoResp EXCEPT !.status = status, !.error = error]

Ok == [NoResp EXCEPT !.status = 200, !.success = TRUE]

\* Line 170.
MoveRequired == Failure(400, "Move required")

\* Line 174.
InvalidMove == Failure(400, "Invalid move")

\* The engine's failure answered as a client error.
AiMoveFailedAs400 == Failure(400, "AI move failed")

\* Line 190.
AiMoveFailed == Failure(500, "AI move failed")

\* Lines 150-153.
EngineUnavailable == Failure(500, "Could not start chess engine")

\* The handlers' except clauses (lines 160, 199, 237): str(e), status 500.
InternalError == Failure(500, "exception")

e2e5 == <<"e", "2", "e", "5">>

\* The move texts a client sends: the universe, a parsable move that is never
\* legal, an unparsable text and the empty text.
MoveTexts == {uci(m) : m \in Universe} \cup {e2e5, <<"z", "z">>, <<>>}

\* The bodies of POST /api/move: no JSON body, JSON without 'move', a move text.
MoveBodies ==
    {Request("move", FALSE, None), Request("move", TRUE, None)}
        \cup {Request("move", TRUE, Some(x)) : x \in MoveTexts}

\* The moves the clients of the concurrent runs send.
ConcMoves == {f2f3, e7e5}

Levels == {-3, 0, 7, 21, 37}

StartBodies ==
    {Request("start", FALSE, None), Request("start", TRUE, None)}
        \cup {Request("start", TRUE, Some(n)) : n \in Levels}

DifficultyBodies ==
    {Request("difficulty", FALSE, None), Request("difficulty", TRUE, None)}
        \cup {Request("difficulty", TRUE, Some(n)) : n \in Levels}

\* data.get(key, 1)
GetOr1(r) == IF r.arg = None THEN 1 ELSE r.arg[1]

\* Thread t accepts request r.
Accept(t, r) ==
    /\ pc[t] = "idle"
    /\ quota # 0
    /\ quota' = IF quota = Unlimited THEN quota ELSE quota - 1
    /\ req' = [req EXCEPT ![t] = r]
    /\ before' = [before EXCEPT ![t] =
                    IF r.op \in {"move", "reset"}
                    THEN [board |-> board, game_history |-> game_history]
                    ELSE NoBefore]

\* The handler of thread t returns response r.
Respond(t, r) ==
    /\ pc' = [pc EXCEPT ![t] = "done"]
    /\ resp' = [resp EXCEPT ![t] = r]

Goto(t, label) ==
    /\ pc' = [pc EXCEPT ![t] = label]
    /\ UNCHANGED resp

-----------------------------------------------------------------------------
(* Construction: game = ChessGame() *)

InitGame(exists, moves) ==
    /\ fs = exists
    /\ variant = Rules(moves)
    /\ board = NewBoard
    /\ engine_path = find_stockfish(fs)
    /\ engine = None
    /\ game_history = <<>>
    /\ difficulty = 1
    /\ procs = <<>>
    /\ pc = [t \in Threads |-> "idle"]
    /\ req = [t \in Threads |-> NoReq]
    /\ local = [t \in Threads |-> NoLocal]
    /\ resp = [t \in Threads |-> NoResp]
    /\ before = [t \in Threads |-> NoBefore]

\* The server of Spec accepts requests without limit.
Init == \E exists \in Filesystems : InitGame(exists, Universe) /\ quota = Unlimited

-----------------------------------------------------------------------------
(* POST /api/move *)

\* make_move (the route), lines 166-170: the body is read.
MoveRequest(t, bodies) ==
    /\ \E r \in bodies :
        /\ Accept(t, r)
        /\ IF ~r.json
           THEN Respond(t, InternalError)
           ELSE IF r.arg = None \/ r.arg[1] = <<>>
           THEN Respond(t, MoveRequired)
           ELSE Goto(t, "make_move")
    /\ UNCHANGED <<board, fs, variant, engine_path, engine, game_history, difficulty, procs, local>>

\* make_move without the legality test of line 75: every parsable move of
\* the universe is pushed.
MakeMoveCheckSkipsLegality(t) ==
    /\ pc[t] = "make_move"
    /\ LET text == req[t].arg[1]
       IN  IF Parsable(text) /\ from_uci(text) \in {r.move : r \in variant}
           THEN /\ local' = [local EXCEPT ![t].move = Some(from_uci(text))]
                /\ Goto(t, "mm_push")
           ELSE /\ Respond(t, InvalidMove)
                /\ UNCHANGED local
    /\ UNCHANGED <<board, fs, variant, engine_path, engine, game_history, difficulty, procs, req,
                   quota, before>>

\* make_move testing the move against board.pseudo_legal_moves: whether or
\* not the king is left attacked.
MakeMoveCheckPseudoLegal(t) ==
    /\ pc[t] = "make_move"
    /\ LET text == req[t].arg[1]
       IN  IF Parsable(text) /\ from_uci(text) \in pseudo_legal_moves(board)
           THEN /\ local' = [local EXCEPT ![t].move = Some(from_uci(text))]
                /\ Goto(t, "mm_push")
           ELSE /\ Respond(t, InvalidMove)
                /\ UNCHANGED local
    /\ UNCHANGED <<board, fs, variant, engine_path, engine, game_history, difficulty, procs, req,
                   quota, before>>

\* ChessGame.make_move, lines 74-75 and 83-85: the text is parsed and looked
\* up in the legal moves; failure returns False and the route answers 400.
MakeMoveCheck(t) ==
    /\ pc[t] = "make_move"
    /\ LET text == req[t].arg[1]
       IN  IF Parsable(text) /\ from_uci(text) \in legal_moves(board)
           THEN /\ local' = [local EXCEPT ![t].move = Some(from_uci(text))]
                /\ Goto(t, "mm_push")
           ELSE /\ Respond(t, InvalidMove)
                /\ UNCHANGED local
    /\ UNCHANGED <<board, fs, variant, engine_path, engine, game_history, difficulty, procs, req,
                   quota, before>>

\* ChessGame.make_move, line 76 (and 84-85 when push raises).
MakeMovePush(t) ==
    /\ pc[t] = "mm_push"
    /\ board' = push(board, local[t].move[1])
    /\ IF PushRaises(board, local[t].move[1])
       THEN Respond(t, InvalidMove)
       ELSE Goto(t, "mm_append")
    /\ UNCHANGED <<fs, variant, engine_path, engine, game_history, difficulty, procs, req, local,
                   quota,
                   before>>

\* make_move recording the move at the front of the history.
MakeMoveAppendFront(t) ==
    /\ pc[t] = "mm_append"
    /\ game_history' = <<Entry(req[t].arg[1], "human")>> \o game_history
    /\ Goto(t, "mv_state")
    /\ UNCHANGED <<board, fs, variant, engine_path, engine, difficulty, procs, req, local, quota,
                   before>>

\* make_move without the append of lines 77-81.
MakeMoveAppendSkipped(t) ==
    /\ pc[t] = "mm_append"
    /\ Goto(t, "mv_state")
    /\ UNCHANGED <<fs, variant, board, engine_path, engine, game_history, difficulty, procs, req,
                   local, quota, before>>

\* ChessGame.make_move, lines 77-82.
MakeMoveAppend(t) ==
    /\ pc[t] = "mm_append"
    /\ game_history' = Append(game_history, Entry(req[t].arg[1], "human"))
    /\ Goto(t, "mv_state")
    /\ UNCHANGED <<board, fs, variant, engine_path, engine, difficulty, procs, req, local, quota,
                   before>>

\* make_move (the route), lines 176-185.
MoveBoardState(t) ==
    /\ pc[t] = "mv_state"
    /\ LET board_state == get_board_state(board, game_history)
       IN  IF board_state.is_game_over
           THEN /\ Respond(t, [Ok EXCEPT !.board_state = Some(board_state),
                                         !.game_over = TRUE])
           ELSE Goto(t, "ge_engine")
    /\ UNCHANGED <<board, fs, variant, engine_path, engine, game_history, difficulty, procs, req,
                   local, quota, before>>

\* ChessGame.get_engine_move, lines 90-92: the engine is started when the
\* handle is None; the route answers 500 when that fails (lines 189-190).
GetEngineMoveStart(t) ==
    /\ pc[t] = "ge_engine"
    /\ IF engine = None
       THEN \/ StartEngineOk /\ Goto(t, "ge_play")
            \/ StartEngineFails /\ Respond(t, AiMoveFailed)
       ELSE UNCHANGED <<engine, procs>> /\ Goto(t, "ge_play")
    /\ UNCHANGED <<board, fs, variant, engine_path, game_history, difficulty, req, local, quota,
                   before>>

\* get_engine_move taking the human move back when the search fails.
GetEngineMovePlayRollsBack(t) ==
    /\ pc[t] = "ge_play"
    /\ \/ /\ EngineAlive
          /\ \E m \in legal_moves(board) : local' = [local EXCEPT ![t].move = Some(m)]
          /\ Goto(t, "ge_push")
          /\ UNCHANGED <<board, game_history, procs>>
       \/ /\ EngineAlive
          /\ legal_moves(board) = {}
          /\ local' = [local EXCEPT ![t].move = None]
          /\ Goto(t, "ge_push")
          /\ UNCHANGED <<board, game_history, procs>>
       \/ /\ Respond(t, AiMoveFailed)
          /\ board' = before[t].board
          /\ game_history' = before[t].game_history
          /\ \/ UNCHANGED procs
             \/ EngineAlive /\ procs' = [procs EXCEPT ![engine[1]] = "dead"]
          /\ UNCHANGED local
    /\ UNCHANGED <<fs, variant, engine_path, engine, difficulty, req, quota, before>>

\* ChessGame.get_engine_move, lines 94-95 (and 105-107): the engine searches
\* the position.  A live engine answers with a legal move, or with no move
\* when there is none; or the search fails, the process staying up or dying.
GetEngineMovePlay(t) ==
    /\ pc[t] = "ge_play"
    /\ \/ /\ EngineAlive
          /\ \E m \in legal_moves(board) : local' = [local EXCEPT ![t].move = Some(m)]
          /\ Goto(t, "ge_push")
          /\ UNCHANGED procs
       \/ /\ EngineAlive
          /\ legal_moves(board) = {}
          /\ local' = [local EXCEPT ![t].move = None]
          /\ Goto(t, "ge_push")
          /\ UNCHANGED procs
       \/ /\ Respond(t, AiMoveFailed)
          /\ UNCHANGED <<local, procs>>
       \/ /\ EngineAlive
          /\ procs' = [procs EXCEPT ![engine[1]] = "dead"]
          /\ Respond(t, AiMoveFailed)
          /\ UNCHANGED local
    /\ UNCHANGED <<board, fs, variant, engine_path, engine, game_history, difficulty, req, quota,
                   before>>

\* ChessGame.get_engine_move, line 96 (and 105-107 when push raises).
GetEngineMovePush(t) ==
    /\ pc[t] = "ge_push"
    /\ IF local[t].move = None
       THEN /\ Respond(t, AiMoveFailed)
            /\ UNCHANGED board
       ELSE /\ board' = push(board, local[t].move[1])
            /\ IF PushRaises(board, local[t].move[1])
               THEN Respond(t, AiMoveFailed)
               ELSE Goto(t, "ge_append")
    /\ UNCHANGED <<fs, variant, engine_path, engine, game_history, difficulty, procs, req, local,
                   quota,
                   before>>

\* get_engine_move without the append of lines 98-102.
GetEngineMoveAppendSkipped(t) ==
    /\ pc[t] = "ge_append"
    /\ Goto(t, "mv_respond")
    /\ UNCHANGED <<board, fs, variant, engine_path, engine, game_history, difficulty, procs, req,
                   local,
                   quota,
                   before>>

\* ChessGame.get_engine_move, lines 98-104.
GetEngineMoveAppend(t) ==
    /\ pc[t] = "ge_append"
    /\ game_history' = Append(game_history, Entry(uci(local[t].move[1]), "ai"))
    /\ Goto(t, "mv_respond")
    /\ UNCHANGED <<board, fs, variant, engine_path, engine, difficulty, procs, req, local, quota,
                   before>>

\* make_move (the route), lines 192-197.
MoveRespond(t) ==
    /\ pc[t] = "mv_respond"
    /\ Respond(t, [Ok EXCEPT !.board_state = Some(get_board_state(board, game_history)),
                             !.ai_move = Some(uci(local[t].move[1])),
                             !.game_over = is_game_over(board)])
    /\ UNCHANGED <<board, fs, variant, engine_path, engine, game_history, difficulty, procs, req,
                   local, quota, before>>

-----------------------------------------------------------------------------
(* reset_game, shared by /api/start and /api/reset *)

\* reset_game also stopping the engine, as stop_engine does (lines 67-69).
ResetBoardStopsEngine(t) ==
    /\ pc[t] = "reset_game"
    /\ board' = NewBoard
    /\ IF engine # None
       THEN /\ procs' = [procs EXCEPT ![engine[1]] = "dead"]
            /\ engine' = None
       ELSE UNCHANGED <<engine, procs>>
    /\ Goto(t, "rs_history")
    /\ UNCHANGED <<fs, variant, engine_path, game_history, difficulty, req, local, quota, before>>

\* ChessGame.reset_game, line 124.
ResetBoard(t) ==
    /\ pc[t] = "reset_game"
    /\ board' = NewBoard
    /\ Goto(t, "rs_history")
    /\ UNCHANGED <<fs, variant, engine_path, engine, game_history, difficulty, procs, req, local,
                   quota,
                   before>>

\* reset_game without line 125: the history is kept.
ResetHistoryKept(t) ==
    /\ pc[t] = "rs_history"
    /\ Goto(t, IF req[t].op = "start" THEN "st_difficulty" ELSE "rt_respond")
    /\ UNCHANGED <<board, fs, variant, engine_path, engine, game_history, difficulty, procs, req,
                   local,
                   quota,
                   before>>

\* ChessGame.reset_game, line 125.
ResetHistory(t) ==
    /\ pc[t] = "rs_history"
    /\ game_history' = <<>>
    /\ Goto(t, IF req[t].op = "start" THEN "st_difficulty" ELSE "rt_respond")
    /\ UNCHANGED <<board, fs, variant, engine_path, engine, difficulty, procs, req, local, quota,
                   before>>

-----------------------------------------------------------------------------
(* POST /api/start *)

\* start_game, lines 143-144.  Without a JSON body get_json raises or returns
\* None, depending on the Flask release.
StartRequest(t, bodies) ==
    /\ \E r \in bodies :
        /\ Accept(t, r)
        /\ \/ ~r.json /\ Respond(t, InternalError)
           \/ Goto(t, "reset_game")
    /\ UNCHANGED <<board, fs, variant, engine_path, engine, game_history, difficulty, procs, local>>

\* start_game, line 147.
StartSetDifficulty(t) ==
    /\ pc[t] = "st_difficulty"
    /\ difficulty' = set_difficulty(GetOr1(req[t]))
    /\ Goto(t, "st_engine")
    /\ UNCHANGED <<board, fs, variant, engine_path, engine, game_history, procs, req, local,
                   quota, before>>

\* start_game without the test of line 149: start_engine's result is ignored.
StartEngineUnchecked(t) ==
    /\ pc[t] = "st_engine"
    /\ \/ StartEngineOk
       \/ StartEngineFails
    /\ Goto(t, "st_respond")
    /\ UNCHANGED <<board, fs, variant, engine_path, game_history, difficulty, req, local, quota,
                   before>>

\* start_game, lines 149-153.
StartEngine(t) ==
    /\ pc[t] = "st_engine"
    /\ \/ StartEngineOk /\ Goto(t, "st_respond")
       \/ StartEngineFails /\ Respond(t, EngineUnavailable)
    /\ UNCHANGED <<board, fs, variant, engine_path, game_history, difficulty, req, local, quota,
                   before>>

\* start_game, lines 155-158.
StartRespond(t) ==
    /\ pc[t] = "st_respond"
    /\ Respond(t, [Ok EXCEPT !.board_state = Some(get_board_state(board, game_history))])
    /\ UNCHANGED <<board, fs, variant, engine_path, engine, game_history, difficulty, procs, req,
                   local, quota, before>>

-----------------------------------------------------------------------------
(* POST /api/reset, POST /api/difficulty, GET /api/board, GET /api/history *)

\* reset_game (the route), line 216: the request arrives.
ResetRequest(t) ==
    /\ Accept(t, Request("reset", FALSE, None))
    /\ Goto(t, "reset_game")
    /\ UNCHANGED <<board, fs, variant, engine_path, engine, game_history, difficulty, procs, local>>

\* reset_game (the route), lines 217-220.
ResetRespond(t) ==
    /\ pc[t] = "rt_respond"
    /\ Respond(t, [Ok EXCEPT !.board_state = Some(get_board_state(board, game_history))])
    /\ UNCHANGED <<board, fs, variant, engine_path, engine, game_history, difficulty, procs, req,
                   local, quota, before>>

\* set_difficulty (the route), lines 228-230 (and 236-237 without a body).
DifficultyRequest(t) ==
    /\ \E r \in DifficultyBodies :
        /\ Accept(t, r)
        /\ IF ~r.json
           THEN Respond(t, InternalError) /\ UNCHANGED difficulty
           ELSE difficulty' = set_difficulty(GetOr1(r)) /\ Goto(t, "df_respond")
    /\ UNCHANGED <<board, fs, variant, engine_path, engine, game_history, procs, local>>

\* set_difficulty (the route), lines 232-235.
DifficultyRespond(t) ==
    /\ pc[t] = "df_respond"
    /\ Respond(t, [Ok EXCEPT !.difficulty = difficulty])
    /\ UNCHANGED <<board, fs, variant, engine_path, engine, game_history, difficulty, procs, req,
                   local, quota, before>>

\* get_board launching the engine when none is held, as get_engine_move does.
BoardRequestStartsEngine(t) ==
    /\ Accept(t, Request("board", FALSE, None))
    /\ Respond(t, [Ok EXCEPT !.board_state = Some(get_board_state(board, game_history))])
    /\ IF engine = None /\ engine_path # None /\ Len(procs) < MaxProcs
       THEN StartEngineOk
       ELSE UNCHANGED <<engine, procs>>
    /\ UNCHANGED <<board, fs, variant, engine_path, game_history, difficulty, local>>

\* get_board, lines 205-208.
BoardRequest(t) ==
    /\ Accept(t, Request("board", FALSE, None))
    /\ Respond(t, [Ok EXCEPT !.board_state = Some(get_board_state(board, game_history))])
    /\ UNCHANGED <<board, fs, variant, engine_path, engine, game_history, difficulty, procs, local>>

\* get_history, lines 243-247.
HistoryRequest(t) ==
    /\ Accept(t, Request("history", FALSE, None))
    /\ Respond(t, [Ok EXCEPT !.history = Some(game_history)])
    /\ UNCHANGED <<board, fs, variant, engine_path, engine, game_history, difficulty, procs, local>>

\* The response is sent and the thread is free for the next request.
Return(t) ==
    /\ pc[t] = "done"
    /\ pc' = [pc EXCEPT ![t] = "idle"]
    /\ req' = [req EXCEPT ![t] = NoReq]
    /\ local' = [local EXCEPT ![t] = NoLocal]
    /\ resp' = [resp EXCEPT ![t] = NoResp]
    /\ before' = [before EXCEPT ![t] = NoBefore]
    /\ UNCHANGED <<board, fs, variant, engine_path, engine, game_history, difficulty, procs, quota>>

-----------------------------------------------------------------------------
(* Specifications *)

\* The steps that continue a request of thread t.
Continue(t) ==
    \/ MakeMoveCheck(t)
    \/ MakeMovePush(t)
    \/ MakeMoveAppend(t)
    \/ MoveBoardState(t)
    \/ GetEngineMoveStart(t)
    \/ GetEngineMovePlay(t)
    \/ GetEngineMovePush(t)
    \/ GetEngineMoveAppend(t)
    \/ MoveRespond(t)
    \/ ResetBoard(t)
    \/ ResetHistory(t)
    \/ StartSetDifficulty(t)
    \/ StartEngine(t)
    \/ StartRespond(t)
    \/ ResetRespond(t)
    \/ Return(t)

\* One step of request thread t.
Step(t) ==
    \/ MoveRequest(t, MoveBodies)
    \/ StartRequest(t, StartBodies)
    \/ ResetRequest(t)
    \/ DifficultyRequest(t)
    \/ DifficultyRespond(t)
    \/ BoardRequest(t)
    \/ HistoryRequest(t)
    \/ Continue(t)

Next == \E t \in SeqThreads : Step(t)

\* Requests are served one at a time.
Spec == Init /\ [][Next]_vars

\* The requests of the concurrent runs: the requests that read or write the
\* board and the history, with well-formed bodies.
ConcMoveBodies == {Request("move", TRUE, Some(uci(m))) : m \in ConcMoves}

ConcStartBodies == {Request("start", TRUE, None)}

ConcStep(t) ==
    \/ MoveRequest(t, ConcMoveBodies)
    \/ StartRequest(t, ConcStartBodies)
    \/ ResetRequest(t)
    \/ BoardRequest(t)
    \/ HistoryRequest(t)
    \/ Continue(t)

ConcInit == InitGame({}, Universe) /\ quota = MaxRequests

ConcNext == \E t \in Threads : ConcStep(t)

\* Two request threads interleave statement by statement.
ConcSpec == ConcInit /\ [][ConcNext]_vars

\* The requests of the games of knight moves.
DrawMoveBodies == {Request("move", TRUE, Some(uci(m))) : m \in Shuffle}

DrawStep(t) ==
    \/ MoveRequest(t, DrawMoveBodies)
    \/ StartRequest(t, ConcStartBodies)
    \/ ResetRequest(t)
    \/ BoardRequest(t)
    \/ HistoryRequest(t)
    \/ Continue(t)

DrawInit == InitGame({}, Shuffle) /\ quota = MaxDrawRequests

DrawNext == \E t \in SeqThreads : DrawStep(t)

\* Requests served one at a time, in games of knight moves, for
\* MaxDrawRequests requests.
DrawSpec == DrawInit /\ [][DrawNext]_vars

-----------------------------------------------------------------------------
(* Properties *)

Done(t, op) == pc[t] = "done" /\ req[t].op = op

\* The request of thread t carries a move text.
HasMoveText(t) == req[t].op = "move" /\ req[t].json /\ req[t].arg # None

MoveText(t) == req[t].arg[1]

\* The text names a legal move of position b.
LegalText(text, b) == Parsable(text) /\ from_uci(text) \in legal_moves(b)

HumanEntry(t) == Entry(MoveText(t), "human")

\* C1: at most one engine subprocess launched by the session is alive at any
\* time; /api/start on a running engine leaves no previous process running.
C1_AtMostOneEngineAlive == Cardinality(Alive) <= 1

\* C2: a move text that is empty, unparsable or not legal in the current
\* position is rejected in one step: the response is 400 with success false,
\* board, history, difficulty, engine handle and processes are unchanged, and
\* no step of get_engine_move is taken.
C2_IllegalMoveRejected ==
    [][\A t \in Threads :
        /\ (/\ pc[t] = "make_move" /\ pc'[t] # "make_move"
            /\ ~LegalText(MoveText(t), board))
           => /\ pc'[t] = "done"
              /\ resp'[t].status = 400 /\ ~resp'[t].success
              /\ UNCHANGED game
        /\ (/\ pc[t] = "idle" /\ pc'[t] # "idle"
            /\ req'[t].op = "move" /\ req'[t].json /\ req'[t].arg = Some(<<>>))
           => /\ pc'[t] = "done"
              /\ resp'[t].status = 400 /\ ~resp'[t].success
              /\ UNCHANGED game]_vars

C2_Witness ==
    \E t \in Threads :
        /\ Done(t, "move") /\ HasMoveText(t) /\ MoveText(t) = e2e5
        /\ resp[t].status = 400
        /\ game_history # <<>>

\* max(1, min(20, level)), case by case.
Clamped(level) == IF level < 1 THEN 1 ELSE IF level > 20 THEN 20 ELSE level

\* C3: the stored difficulty is in [1,20] in every state, and once
\* set_difficulty(level) has run, through /api/difficulty or /api/start, it
\* is level clamped to [1,20].
C3_DifficultyClamped ==
    /\ difficulty \in 1..20
    /\ \A t \in Threads :
        /\ pc[t] = "df_respond" => difficulty = Clamped(GetOr1(req[t]))
        /\ Done(t, "difficulty") /\ resp[t].success
              => /\ difficulty = Clamped(GetOr1(req[t]))
                 /\ resp[t].difficulty = difficulty
        /\ pc[t] \in {"st_engine", "st_respond"} => difficulty = Clamped(GetOr1(req[t]))
        /\ Done(t, "start") /\ resp[t] # InternalError
              => difficulty = Clamped(GetOr1(req[t]))

C3_Witness ==
    \E t \in Threads :
        /\ Done(t, "difficulty") /\ req[t].arg = Some(37)
        /\ resp[t].difficulty = 20

\* The snapshot of the standard initial position with an empty history.
InitialFen == [placement |-> InitialPlacement, turn |-> "w", fullmove |-> 1]

\* C4: after reset_game, and on the response of /api/reset, the board is the
\* initial position with white to move and the history is empty; the snapshot
\* returned has move_count 0.
C4_ResetRestoresInitial ==
    \A t \in Threads :
        /\ pc[t] \in {"rt_respond", "st_difficulty", "st_engine", "st_respond"}
              => board = NewBoard /\ game_history = <<>>
        /\ Done(t, "reset")
              => /\ board.stack = <<>> /\ board.turn = WHITE
                 /\ game_history = <<>>
                 /\ resp[t].success /\ resp[t].status = 200
                 /\ resp[t].board_state # None
                 /\ resp[t].board_state[1].fen = InitialFen
                 /\ resp[t].board_state[1].turn = "white"
                 /\ resp[t].board_state[1].move_count = 0

\* A reset of a checkmated game played after an engine process died.
C4_Witness ==
    \E t \in Threads :
        /\ Done(t, "reset")
        /\ is_checkmate(before[t].board)
        /\ before[t].game_history # <<>>
        /\ \E i \in 1..Len(procs) : procs[i] = "dead"

\* C5: with requests served one at a time, /api/move first applies the human
\* move (the side to move flips, one 'human' entry is appended) and then the
\* engine's reply (the side flips back, one 'ai' entry is appended): on the
\* success response with an engine move the history is the history before the
\* request plus the human entry plus the ai entry, and the side to move is
\* the side to move before the request.
C5_HumanThenEngine ==
    \A t \in Threads :
        /\ pc[t] \in {"mv_state", "ge_engine", "ge_play", "ge_push"}
              => /\ game_history = Append(before[t].game_history, HumanEntry(t))
                 /\ board.turn # before[t].board.turn
                 /\ board.stack = Append(before[t].board.stack, from_uci(MoveText(t)))
        /\ pc[t] = "ge_append"
              => /\ game_history = Append(before[t].game_history, HumanEntry(t))
                 /\ board.turn = before[t].board.turn
        /\ Done(t, "move") /\ resp[t].success /\ resp[t].ai_move # None
              => /\ LegalText(MoveText(t), before[t].board)
                 /\ game_history = before[t].game_history
                        \o <<HumanEntry(t), Entry(resp[t].ai_move[1], "ai")>>
                 /\ Len(board.stack) = Len(before[t].board.stack) + 2
                 /\ board.turn = before[t].board.turn
                 /\ resp[t].board_state[1].move_count = Len(before[t].game_history) + 2
                 /\ resp[t].board_state[1].turn
                        = (IF before[t].board.turn = WHITE THEN "white" ELSE "black")

\* The scenario of the specification: e2e4 on the initial position, answered.
C5_Witness ==
    \E t \in Threads :
        /\ Done(t, "move") /\ resp[t].success /\ resp[t].ai_move # None
        /\ MoveText(t) = uci(e2e4)
        /\ before[t].board = NewBoard
        /\ Len(game_history) = 2
        /\ resp[t].board_state[1].turn = "white"

\* C6: on a checkmate position every snapshot reports is_checkmate and
\* is_game_over, and every /api/move carrying a move text is answered 400 and
\* leaves board and history as they were.
C6_CheckmateRejectsMoves ==
    \A t \in Threads :
        /\ (pc[t] = "done" /\ resp[t].board_state # None /\ is_checkmate(board))
              => /\ resp[t].board_state[1].is_checkmate
                 /\ resp[t].board_state[1].is_game_over
        /\ (Done(t, "move") /\ HasMoveText(t) /\ is_checkmate(before[t].board))
              => /\ resp[t].status = 400 /\ ~resp[t].success
                 /\ board = before[t].board
                 /\ game_history = before[t].game_history

\* The fool's mate, and a move attempted on it.
C6_Witness ==
    \E t \in Threads :
        /\ Done(t, "move") /\ HasMoveText(t) /\ MoveText(t) = uci(e2e4)
        /\ before[t].board.stack = <<f2f3, e7e5, g2g4, d8h4>>
        /\ is_checkmate(board)
        /\ resp[t].status = 400

\* The request carries no move: no JSON body, no 'move' field or an empty move.
MissingMove(t) == ~req[t].json \/ req[t].arg = None \/ req[t].arg[1] = <<>>

\* C7: /api/move answers 400 whenever the move is missing or invalid, and 500
\* only when the human move was accepted and the AI move failed.
C7_MoveStatusByErrorClass ==
    \A t \in Threads :
        Done(t, "move")
            => /\ MissingMove(t) => resp[t].status = 400
               /\ (~MissingMove(t) /\ ~LegalText(MoveText(t), before[t].board))
                     => resp[t].status = 400
               /\ resp[t].status = 500
                     => /\ ~MissingMove(t)
                        /\ game_history = Append(before[t].game_history, HumanEntry(t))

\* C8: every engine failure (the launch fails on /api/start or on the lazy
\* start, the search fails or the engine dies, the engine has no move) is
\* answered 500 with success false, and /api/board and /api/reset answer
\* success with a board_state in every state, after such failures too.
C8_EngineFailureIs500 ==
    /\ [](\A t \in Threads :
            (Done(t, "board") \/ Done(t, "reset"))
                => /\ resp[t].success /\ resp[t].status = 200
                   /\ resp[t].board_state # None)
    /\ [][\A t \in Threads :
            (pc[t] \in {"st_engine", "ge_engine", "ge_play", "ge_push"} /\ pc'[t] = "done")
                => resp'[t].status = 500 /\ ~resp'[t].success]_vars

\* /api/board served after an engine process died and a later launch failed.
C8_Witness ==
    \E t \in Threads :
        /\ Done(t, "board") /\ resp[t].success
        /\ \E i \in 1..Len(procs) : procs[i] = "dead"
        /\ game_history # <<>>

\* C9: reset is atomic for concurrent requests.  No /api/board reports the
\* initial position together with entries of the previous game, and, outside
\* the two statements of reset_game, the history holds no move that the
\* board does not hold.
C9_ResetAtomic ==
    /\ \A t \in Threads :
        Done(t, "board")
            => ~(/\ resp[t].board_state[1].fen = InitialFen
                 /\ resp[t].board_state[1].move_count > 0)
    /\ (\A t \in Threads : pc[t] # "rs_history")
            => Len(game_history) <= Len(board.stack)

\* C10: every step leaves the history unchanged or appends one entry at its
\* end, except line 125 of reset_game (in /api/reset or /api/start), which
\* empties it.
C10_HistoryAppendOnly ==
    [][\/ game_history' = game_history
       \/ /\ Len(game_history') = Len(game_history) + 1
          /\ SubSeq(game_history', 1, Len(game_history)) = game_history
       \/ /\ game_history' = <<>>
          /\ \E t \in Threads :
                /\ pc[t] = "rs_history" /\ pc'[t] # "rs_history"
                /\ req[t].op \in {"reset", "start"}]_vars

\* A history of four entries, two of each player.
C10_Witness ==
    /\ Len(game_history) = 4
    /\ game_history[1].player = "human" /\ game_history[2].player = "ai"
    /\ game_history[3].player = "human" /\ game_history[4].player = "ai"

\* C11: reading is a pure read.  The steps of GET /api/board and GET
\* /api/history leave board, history, difficulty, engine handle, engine path
\* and engine processes unchanged (no engine is launched or quit) and answer
\* success; every snapshot returned reports the length of the history as
\* move_count, and /api/history returns the history.
C11_ReadsArePure ==
    /\ [](\A t \in Threads :
            (pc[t] = "done" /\ resp[t].board_state # None)
                => resp[t].board_state[1].move_count = Len(game_history))
    /\ [][\A t \in Threads :
            (pc[t] = "idle" /\ pc'[t] # "idle" /\ req'[t].op \in {"board", "history"})
                => /\ UNCHANGED <<game, fs, variant, engine_path>>
                   /\ pc'[t] = "done"
                   /\ resp'[t].success /\ resp'[t].status = 200
                   /\ req'[t].op = "board"
                        => resp'[t].board_state = Some(get_board_state(board, game_history))
                   /\ req'[t].op = "history"
                        => resp'[t].history = Some(game_history)]_vars

\* /api/board read with no engine held and a human move on the board, the
\* launch for the engine's reply having failed.
C11_Witness ==
    \E t \in Threads :
        /\ Done(t, "board")
        /\ engine = None
        /\ resp[t].board_state[1].move_count = 1
        /\ resp[t].board_state[1].turn = "black"

C13_LazyStartWhenNotRunning ==
    [][\A t \in Threads :
        (pc[t] = "ge_engine" /\ pc'[t] # "ge_engine" /\ ~EngineAlive)
            => \/ /\ procs' = Append(procs, "alive")
                  /\ engine' = Some(Len(procs'))
                  /\ pc'[t] = "ge_play"
               \/ /\ pc'[t] = "done" /\ resp'[t] = AiMoveFailed
                  /\ UNCHANGED <<board, game_history>>]_vars

\* The first candidate, in the order of the list, that exists; None when no
\* candidate exists.
FirstExisting(exists) ==
    LET hits == {i \in 1..Len(Candidates) : Candidates[i] \in exists}
    IN  IF hits = {} THEN None
        ELSE Some(Candidates[CHOOSE i \in hits : \A j \in hits : i <= j])

\* C14: find_stockfish returns the first candidate of its list that exists on
\* the filesystem, and None when no candidate exists; with None the engine
\* start fails.  engine_path holds its result from construction on.
C14_FirstExistingCandidate ==
    /\ engine_path = FirstExisting(fs)
    /\ \A t \in Threads :
        (fs = {} /\ Done(t, "start")) => ~resp[t].success

\* C15: reset_game and POST /api/reset change only the board and the history.
\* Every step of a /api/reset request, and the two statements of reset_game
\* in any request, leave the engine handle, the engine processes, the engine
\* path and the difficulty unchanged.
C15_ResetLeavesEngineAndDifficulty ==
    [][\A t \in Threads :
        (/\ pc'[t] # pc[t]
         /\ \/ req[t].op = "reset" \/ req'[t].op = "reset"
            \/ pc[t] \in {"reset_game", "rs_history"})
            => UNCHANGED <<engine, procs, difficulty, engine_path>>]_vars

\* A reset of a game in progress at level 20 with the engine running.
C15_Witness ==
    \E t \in Threads :
        /\ Done(t, "reset")
        /\ before[t].game_history # <<>> /\ game_history = <<>>
        /\ EngineAlive
        /\ difficulty = 20

\* C16: game over is terminal within a game.  A /api/move that arrives on a
\* position that is game over (checkmate, stalemate or a draw condition)
\* leaves board and history as they were, and the engine is never asked to
\* search a position that is game over.
C16_GameOverIsTerminal ==
    \A t \in Threads :
        /\ (Done(t, "move") /\ is_game_over(before[t].board))
              => /\ board = before[t].board
                 /\ game_history = before[t].game_history
        /\ pc[t] = "ge_play" => ~is_game_over(board)

\* C17: with requests served one at a time, the history is as long as the
\* move stack of the board (the moves applied since the last reset) in every
\* state outside the statement pairs push/append (76-77, 96-98) and
\* board/history of reset_game (124-125); between a push and its append the
\* stack is one longer.  A /api/move answered 400 has pushed and appended
\* nothing, and one answered 500 after the human move has pushed one move and
\* appended one entry.
C17_HistoryLengthIsMovesApplied ==
    /\ (\A t \in Threads : pc[t] \notin {"mm_append", "ge_append", "rs_history"})
            => Len(game_history) = Len(board.stack)
    /\ \A t \in Threads :
        /\ pc[t] \in {"mm_append", "ge_append"}
              => Len(board.stack) = Len(game_history) + 1
        /\ pc[t] = "rs_history" => board.stack = <<>>
        /\ Done(t, "move") /\ resp[t].status = 400
              => /\ board = before[t].board
                 /\ game_history = before[t].game_history
        /\ Done(t, "move") /\ resp[t] = AiMoveFailed
              => /\ Len(board.stack) = Len(before[t].board.stack) + 1
                 /\ Len(game_history) = Len(before[t].game_history) + 1
        /\ Done(t, "move") /\ resp[t].success /\ resp[t].ai_move # None
              => /\ Len(board.stack) = Len(before[t].board.stack) + 2
                 /\ Len(game_history) = Len(before[t].game_history) + 2

\* Three moves on the board and three entries: an engine reply failed.
C17_Witness ==
    /\ \A t \in Threads : pc[t] = "idle"
    /\ Len(board.stack) = 3
    /\ Len(game_history) = 3
    /\ game_history[3].player = "human"

\* C18: when /api/move answers 500 'AI move failed', the human move of the
\* request stays: the board is the board before the request with the human
\* move pushed (the side to move flipped), the history is the history before
\* the request plus one 'human' entry.  The failing step of get_engine_move
\* ends the request at once, and get_engine_move never goes back to its
\* start or to its search.
C18_HumanMoveKeptOnEngineFailure ==
    /\ [](\A t \in Threads :
            (Done(t, "move") /\ resp[t] = AiMoveFailed)
                => /\ resp[t].status = 500 /\ resp[t].ai_move = None
                   /\ LegalText(MoveText(t), before[t].board)
                   /\ board = push(before[t].board, from_uci(MoveText(t)))
                   /\ board.turn # before[t].board.turn
                   /\ game_history = Append(before[t].game_history, HumanEntry(t)))
    /\ [][\A t \in Threads :
            /\ (pc[t] \in {"ge_engine", "ge_play", "ge_push"} /\ pc'[t] = "done")
                  => resp'[t] = AiMoveFailed /\ UNCHANGED <<board, game_history>>
            /\ (pc[t] = "ge_engine" /\ pc'[t] # pc[t]) => pc'[t] \in {"ge_play", "done"}
            /\ (pc[t] = "ge_play" /\ pc'[t] # pc[t]) => pc'[t] \in {"ge_push", "done"}
            /\ (pc[t] = "ge_push" /\ pc'[t] # pc[t]) => pc'[t] \in {"ge_append", "done"}]_vars

\* The engine died searching the reply to the first move of a game.
C18_Witness ==
    \E t \in Threads :
        /\ Done(t, "move") /\ resp[t] = AiMoveFailed
        /\ MoveText(t) = uci(e2e4)
        /\ game_history = <<Entry(uci(e2e4), "human")>>
        /\ board.turn = BLACK
        /\ procs = <<"dead">>

\* C19: every move pushed onto the board, the human move at line 76 and the
\* engine's reply at line 96, is legal in the position it is pushed onto, in
\* every interleaving of the requests.
C19_PushedMoveIsLegal ==
    [][\A t \in Threads :
        (/\ pc[t] \in {"mm_push", "ge_push"} /\ pc'[t] # pc[t]
         /\ local[t].move # None)
            => local[t].move[1] \in legal_moves(board)]_vars

====
